---- MODULE Spec2Model ----
(***************************************************************************)
(* The Bayesian A/B testing Streamlit script (streamlit_app_1.py) as a     *)
(* state machine.  One behaviour is one server process: the script runs    *)
(* top to bottom, the user interacts, the script reruns.  The only state   *)
(* that survives a rerun is the process-global random generator that       *)
(* scipy's rvs() draws from.                                                *)
(*                                                                         *)
(* Units.  Priors, Beta parameters, samples, deltas and ROPE bounds are    *)
(* integers in hundredths (the sliders and number inputs step by 0.01).    *)
(* A displayed metric is an integer in thousandths (format ".3f").         *)
(***************************************************************************)
EXTENDS Integers, Sequences, FiniteSets, TLC

VARIABLES
    pc,             \* position of the running script
    rng,            \* process-global generator state (numpy's global RandomState)
    data_mode,      \* st.radio "Choose data source"
    uploaded_file,  \* <<>> (no file) or <<rows>>
    manual,         \* <<>> or <<a_conversions, a_trials, b_conversions, b_trials>>
    df,             \* the DataFrame: a sequence of rows [group, conversions, trials]
    unique_groups,  \* df['group'].dropna().unique()
    group_a_label,
    group_b_label,
    alpha_prior,
    beta_prior,
    hdi_level,      \* percent
    use_rope,
    rope,           \* <<>> (None) or <<rope_min, rope_max>>
    update,         \* st.button "Update Posterior"
    summary,        \* grouped.to_dict(): label -> [conversions, trials]
    post,           \* the frozen beta(a, b) built for each group: group -> <<a, b>>
    samples,        \* [A, B, delta]: sequences of draws, <<>> while not computed
    prob_b_better,  \* <<>> or <<k, n>>: the mean of n booleans of which k are true
    rope_pct,       \* <<>> or <<k, n>>
    screen,         \* what this run has surfaced to the user
    prev            \* history: [tracking, last], last the <<[inputs, metrics]>> of the
                    \* last run that reported, kept while tracking

vars == <<pc, rng, data_mode, uploaded_file, manual, df, unique_groups,
          group_a_label, group_b_label, alpha_prior, beta_prior, hdi_level,
          use_rope, rope, update, summary, post, samples, prob_b_better,
          rope_pct, screen, prev>>

(***************************************************************************)
(* Bounds and input sets                                                   *)
(***************************************************************************)
\* Draws per group; stands for the script's 100_000.
NSamples == 3

\* Width of the generator's register: wide enough that every sequence of
\* 2 * NSamples draws is produced by some seed.
RngBits == 2 * NSamples + 1

NaN == "NaN"
None == "None"

Row(g, c, t) == [group |-> g, conversions |-> c, trials |-> t]

SampleDf == << Row("control", 300, 1000), Row("variant", 320, 1000) >>

\* Uploaded CSV contents the user may supply.
CsvSwapped == << Row("B", 1, 2), Row("A", 0, 1), Row("B", 1, 1) >>
CsvZeroTrials == << Row("x", 0, 0), Row(NaN, 5, 5), Row("A", 1, 2) >>
CsvOneGroup == << Row("control", 1, 2), Row("control", 2, 2) >>
CsvThreeGroups == << Row("x", 1, 2), Row("A", 1, 1), Row("y", 2, 3) >>
CsvNoLabels == << Row(NaN, 1, 2) >>
CsvFiles == {CsvSwapped, CsvZeroTrials, CsvOneGroup, CsvThreeGroups, CsvNoLabels}

\* Values typed into the manual-entry number inputs.
ManualConversions == {1, 2}
ManualTrials == {1}

AlphaChoices == {100}
BetaChoices == {100, 250}
HdiChoices == {80, 95}
RopeChoices == { <<-1, 1>>, <<-50, 50>> }

\* The values a Beta draw takes in the model (0.25 and 0.75), by generator bit.
DrawValues == <<25, 75>>

(***************************************************************************)
(* pandas helpers                                                          *)
(***************************************************************************)
Contains(s, x) == \E i \in DOMAIN s : s[i] = x

Range(s) == {s[i] : i \in DOMAIN s}

RECURSIVE Unique(_)
\* Series.unique(): the distinct values in order of first appearance.
Unique(s) ==
    IF s = <<>> THEN <<>>
    ELSE LET front == Unique(SubSeq(s, 1, Len(s) - 1))
             last == s[Len(s)]
         IN IF Contains(front, last) THEN front ELSE Append(front, last)

\* df['group'].dropna().unique()
UniqueGroups(d) ==
    Unique(SelectSeq([i \in DOMAIN d |-> d[i].group], LAMBDA g : g # NaN))

\* Series.replace(label_map) applied one key after the other; kept to
\* compare with what pandas does.
ReplaceSequential(d, a, b) ==
    LET first == [i \in DOMAIN d |->
                    IF d[i].group = a THEN [d[i] EXCEPT !.group = "A"] ELSE d[i]]
    IN [i \in DOMAIN d |->
          IF first[i].group = b THEN [first[i] EXCEPT !.group = "B"] ELSE first[i]]

\* df['group'].replace({a: 'A', b: 'B'}): pandas matches every key against the
\* original values, so the replacements are simultaneous.
Replace(d, a, b) ==
    [i \in DOMAIN d |->
        IF d[i].group = a THEN [d[i] EXCEPT !.group = "A"]
        ELSE IF d[i].group = b THEN [d[i] EXCEPT !.group = "B"]
        ELSE d[i]]

RECURSIVE SumOf(_, _, _)
\* Sum of column col over the rows of d labelled g.
SumOf(d, g, col) ==
    IF d = <<>> THEN 0
    ELSE LET r == d[Len(d)]
         IN SumOf(SubSeq(d, 1, Len(d) - 1), g, col)
            + (IF r.group = g THEN (IF col = "conversions" THEN r.conversions ELSE r.trials)
               ELSE 0)

\* df.groupby('group').agg(sum).to_dict(): rows with a missing label are dropped.
Grouped(d) ==
    [g \in Range(UniqueGroups(d)) |->
        [conversions |-> SumOf(d, g, "conversions"), trials |-> SumOf(d, g, "trials")]]

(***************************************************************************)
(* The random generator and scipy's beta                                   *)
(***************************************************************************)
\* One step of the generator: a linear feedback shift register, as numpy's
\* Mersenne Twister is; the bit shifted out is the output.
Step(s) ==
    [i \in 1..Len(s) |-> IF i < Len(s) THEN s[i + 1] ELSE (s[1] + s[2]) % 2]

RECURSIVE Advance(_, _)
Advance(s, n) == IF n = 0 THEN s ELSE Advance(Step(s), n - 1)

\* beta(a, b).rvs(n) from generator state s: n draws in (0, 1).  The model
\* keeps which draws the generator yields, not the shape of the distribution:
\* every valid (a, b) has the whole of (0, 1) as its support.
Rvs(s, n) == [i \in 1..n |-> DrawValues[Advance(s, i - 1)[1] + 1]]

\* The seeds the generator can start from: every register but all-zero.
Seeds == {s \in [1..RngBits -> {0, 1}] : \E i \in 1..RngBits : s[i] = 1}

PosteriorTrialsAsFailures(alpha, beta, conv, trials) ==
    << alpha + 100 * conv, beta + 100 * trials >>

\* The arguments of beta(alpha_prior + conv, beta_prior + trials - conv).
Posterior(alpha, beta, conv, trials) ==
    << alpha + 100 * conv, beta + 100 * (trials - conv) >>

\* scipy's argument check: rvs raises ValueError unless both are positive.
ValidParams(p) == p[1] > 0 /\ p[2] > 0

(***************************************************************************)
(* The decision metrics                                                    *)
(***************************************************************************)
\* samples['B'] - samples['A'], element by element.
Delta(sa, sb) == [i \in DOMAIN sa |-> sb[i] - sa[i]]

CountTrue(flags) == Cardinality({i \in DOMAIN flags : flags[i]})

GreaterOrEqual(delta) == [i \in DOMAIN delta |-> delta[i] >= 0]

\* samples['delta'] > 0
Greater(delta) == [i \in DOMAIN delta |-> delta[i] > 0]

InsideRopeClosed(delta, lo, hi) ==
    [i \in DOMAIN delta |-> delta[i] >= lo /\ delta[i] <= hi]

\* (samples['delta'] > rope_min) & (samples['delta'] < rope_max)
InsideRope(delta, lo, hi) ==
    [i \in DOMAIN delta |-> delta[i] > lo /\ delta[i] < hi]

\* np.mean of a boolean array, kept exact: <<number true, length>>.
Mean(flags) == << CountTrue(flags), Len(flags) >>

\* f"{k/n:.3f}" in thousandths: the nearest thousandth.  An exact tie (which
\* needs 16 to divide n) is written here as going to the even one.
Format3(m) ==
    LET q == (1000 * m[1]) \div m[2]
        r == (1000 * m[1]) % m[2]
    IN IF 2 * r > m[2] \/ (2 * r = m[2] /\ q % 2 = 1) THEN q + 1 ELSE q

(***************************************************************************)
(* The highest-density interval                                            *)
(***************************************************************************)
Unsorted(s) == s

Sorted(s) == SortSeq(s, LAMBDA x, y : x < y)

\* ceil(massLevel * n), massLevel in percent.
WindowSize(mass, n) == (mass * n + 99) \div 100

\* The minimum-width window of WindowSize consecutive sorted samples, the
\* smallest start index winning a tie: <<low, high>>.  The script always
\* passes NSamples >= 2 samples and a level below 100, so a window exists.
HDI(s, mass) ==
    LET sorted == Sorted(s)
        n == Len(s)
        w == WindowSize(mass, n)
        width(i) == sorted[i + w - 1] - sorted[i]
        best == CHOOSE i \in 1..(n - w + 1) :
                    \A j \in 1..(n - w + 1) :
                        width(i) < width(j) \/ (width(i) = width(j) /\ i <= j)
    IN << sorted[best], sorted[best + w - 1] >>

Width(iv) == iv[2] - iv[1]

(***************************************************************************)
(* The script run                                                          *)
(***************************************************************************)
EmptyScreen ==
    [error |-> "", exception |-> "", preview |-> FALSE, plots |-> FALSE,
     table |-> <<>>, p_b_gt_a |-> <<>>, p_rope |-> <<>>]

NoSamples == [A |-> <<>>, B |-> <<>>, delta |-> <<>>]
NoPost == [A |-> <<>>, B |-> <<>>]

ExpectedTwoMsg == "Expected exactly 2 groups"
DistinctMsg == "Groups A and B must be distinct."
AbsentMsg == "Mapped group labels to A and B are not present in the data."

Terminal == {"done", "stopped", "raised"}

\* The script's variables before it has assigned them.
FreshRun ==
    /\ data_mode = "" /\ uploaded_file = <<>> /\ manual = <<>> /\ df = <<>>
    /\ unique_groups = <<>> /\ group_a_label = "" /\ group_b_label = ""
    /\ alpha_prior = 0 /\ beta_prior = 0 /\ hdi_level = 0
    /\ use_rope = FALSE /\ rope = <<>> /\ update = FALSE
    /\ summary = <<>> /\ post = NoPost /\ samples = NoSamples
    /\ prob_b_better = <<>> /\ rope_pct = <<>>
    /\ screen = EmptyScreen

source_vars == <<data_mode, uploaded_file, manual>>
map_vars == <<unique_groups, group_a_label, group_b_label>>
setting_vars == <<alpha_prior, beta_prior, hdi_level, use_rope, rope, update>>
analysis_vars == <<summary, post, samples, prob_b_better, rope_pct>>

FallThrough(next) == next

\* st.stop(): the run ends here instead of going on to the statement at next.
Stop(next) == "stopped"

\* What the run was given and what it reported, for comparing two runs.
Inputs ==
    [data_mode |-> data_mode, uploaded_file |-> uploaded_file, manual |-> manual,
     group_a_label |-> group_a_label, alpha_prior |-> alpha_prior,
     beta_prior |-> beta_prior, hdi_level |-> hdi_level, rope |-> rope]
Metrics ==
    [table |-> screen.table, p_b_gt_a |-> screen.p_b_gt_a, p_rope |-> screen.p_rope]

Init ==
    /\ pc = "source"
    /\ rng \in Seeds
    /\ FreshRun
    /\ prev = [tracking |-> FALSE, last |-> <<>>]

\* The user interacts with a widget after a run has ended: Streamlit runs the
\* script again from the top, in the same process.
Rerun ==
    /\ pc \in Terminal
    /\ pc' = "source"
    /\ data_mode' = "" /\ uploaded_file' = <<>> /\ manual' = <<>> /\ df' = <<>>
    /\ unique_groups' = <<>> /\ group_a_label' = "" /\ group_b_label' = ""
    /\ alpha_prior' = 0 /\ beta_prior' = 0 /\ hdi_level' = 0
    /\ use_rope' = FALSE /\ rope' = <<>> /\ update' = FALSE
    /\ summary' = <<>> /\ post' = NoPost /\ samples' = NoSamples
    /\ prob_b_better' = <<>> /\ rope_pct' = <<>>
    /\ screen' = EmptyScreen
    /\ prev' = IF prev.tracking /\ pc = "done" /\ screen.p_b_gt_a # <<>>
               THEN [prev EXCEPT !.last = << [inputs |-> Inputs, metrics |-> Metrics] >>]
               ELSE prev
    /\ UNCHANGED rng

\* Lines 18-23.
SampleData ==
    /\ pc = "source"
    /\ data_mode' = "Sample data"
    /\ df' = SampleDf
    /\ pc' = "groups"
    /\ UNCHANGED <<rng, uploaded_file, manual, map_vars, setting_vars,
                   analysis_vars, screen, prev>>

\* Lines 25-30.
UploadCSV ==
    /\ pc = "source"
    /\ data_mode' = "Upload CSV"
    /\ \E f \in {<<>>} \cup {<<c>> : c \in CsvFiles} :
          /\ uploaded_file' = f
          /\ IF f # <<>>
             THEN df' = f[1] /\ pc' = "groups"
             ELSE df' = df /\ pc' = Stop("groups")
    /\ UNCHANGED <<rng, manual, map_vars, setting_vars, analysis_vars, screen, prev>>

\* Lines 32-41; the number inputs enforce min_value.
ManualEntry ==
    /\ pc = "source"
    /\ data_mode' = "Manual entry"
    /\ \E a_conversions \in ManualConversions, a_trials \in ManualTrials,
          b_conversions \in ManualConversions, b_trials \in ManualTrials :
          /\ a_conversions >= 0 /\ a_trials >= 1
          /\ b_conversions >= 0 /\ b_trials >= 1
          /\ manual' = <<a_conversions, a_trials, b_conversions, b_trials>>
          /\ df' = << Row("control", a_conversions, a_trials),
                      Row("variant", b_conversions, b_trials) >>
    /\ pc' = "groups"
    /\ UNCHANGED <<rng, uploaded_file, map_vars, setting_vars, analysis_vars,
                   screen, prev>>

FewerThanTwo(u) == Len(u) < 2

\* Line 56.
NotTwoGroups(u) == Len(u) # 2

\* Lines 55-58.  df is unbound when no file was uploaded.
CheckGroups ==
    /\ pc = "groups"
    /\ IF data_mode = "Upload CSV" /\ uploaded_file = <<>>
       THEN /\ pc' = "raised"
            /\ screen' = [screen EXCEPT !.exception = "NameError"]
            /\ UNCHANGED unique_groups
       ELSE /\ unique_groups' = UniqueGroups(df)
            /\ IF NotTwoGroups(unique_groups')
               THEN /\ screen' = [screen EXCEPT !.error = ExpectedTwoMsg]
                    /\ pc' = Stop("map")
               ELSE /\ pc' = "map"
                    /\ UNCHANGED screen
    /\ UNCHANGED <<rng, source_vars, df, group_a_label, group_b_label,
                   setting_vars, analysis_vars, prev>>

\* Line 62.
DefaultA(u) == IF Contains(u, "control") THEN "control" ELSE u[1]

\* Line 66: the options of the second select box.
OptionsB(u, a) == SelectSeq(u, LAMBDA g : g # a)

\* Lines 62-76.  Lines 62 and 63 index an empty list when there are fewer
\* than two labels.  The first select box starts at DefaultA and the user may
\* have moved it; the second offers every label but the first one's.
MapGroups ==
    /\ pc = "map"
    /\ IF \/ unique_groups = <<>>
          \/ (~Contains(unique_groups, "variant")
                /\ OptionsB(unique_groups, DefaultA(unique_groups)) = <<>>)
       THEN /\ pc' = "raised"
            /\ screen' = [screen EXCEPT !.exception = "IndexError"]
            /\ UNCHANGED <<df, group_a_label, group_b_label>>
       ELSE \E a \in Range(unique_groups) :
            \E b \in IF OptionsB(unique_groups, a) = <<>> THEN {None}
                     ELSE Range(OptionsB(unique_groups, a)) :
               /\ group_a_label' = a
               /\ group_b_label' = b
               /\ IF a = b
                  THEN /\ screen' = [screen EXCEPT !.error = DistinctMsg]
                       /\ pc' = Stop("settings")
                       /\ UNCHANGED df
                  ELSE /\ df' = Replace(df, a, b)
                       /\ pc' = "settings"
                       /\ UNCHANGED screen
    /\ UNCHANGED <<rng, source_vars, unique_groups, setting_vars, analysis_vars, prev>>

\* Lines 81-110: the sliders, the ROPE inputs and the button.
Settings ==
    /\ pc = "settings"
    /\ alpha_prior' \in AlphaChoices
    /\ beta_prior' \in BetaChoices
    /\ hdi_level' \in HdiChoices
    /\ use_rope' \in BOOLEAN
    /\ IF use_rope' THEN rope' \in RopeChoices ELSE rope' = <<>>
    /\ update' \in BOOLEAN
    /\ pc' = "preview"
    /\ UNCHANGED <<rng, source_vars, df, map_vars, analysis_vars, screen, prev>>

\* Lines 115-121: the data preview with the conversion rates.
Preview ==
    /\ pc = "preview"
    /\ screen' = [screen EXCEPT !.preview = TRUE]
    /\ pc' = "gate"
    /\ UNCHANGED <<rng, source_vars, df, map_vars, setting_vars, analysis_vars, prev>>

GateAlwaysOpen(upd, mode) == TRUE

\* Line 124.
GateOpen(upd, mode) == upd \/ mode \in {"Sample data", "Manual entry"}

\* Lines 124-129.
Gate ==
    /\ pc = "gate"
    /\ IF GateOpen(update, data_mode)
       THEN /\ summary' = Grouped(df)
            /\ IF "A" \notin DOMAIN summary' \/ "B" \notin DOMAIN summary'
               THEN /\ screen' = [screen EXCEPT !.error = AbsentMsg]
                    /\ pc' = Stop("sampleA")
               ELSE /\ pc' = "sampleA"
                    /\ UNCHANGED screen
       ELSE /\ pc' = "done"
            /\ UNCHANGED <<summary, screen>>
    /\ UNCHANGED <<rng, source_vars, df, map_vars, setting_vars, post, samples,
                   prob_b_better, rope_pct, prev>>

\* Lines 132-135, one pass of the loop: the frozen beta is built and rvs
\* draws from the global generator, or raises on a non-positive argument.
DrawSamples ==
    /\ pc \in {"sampleA", "sampleB"}
    /\ LET group == IF pc = "sampleA" THEN "A" ELSE "B"
           conv == summary[group].conversions
           trials == summary[group].trials
           dist == Posterior(alpha_prior, beta_prior, conv, trials)
       IN /\ post' = [post EXCEPT ![group] = dist]
          /\ IF ValidParams(dist)
             THEN /\ samples' = [samples EXCEPT ![group] = Rvs(rng, NSamples)]
                  /\ rng' = Advance(rng, NSamples)
                  /\ pc' = IF pc = "sampleA" THEN "sampleB" ELSE "delta"
                  /\ UNCHANGED screen
             ELSE /\ pc' = "raised"
                  /\ screen' = [screen EXCEPT !.exception = "ValueError"]
                  /\ UNCHANGED <<samples, rng>>
    /\ UNCHANGED <<source_vars, df, map_vars, setting_vars, summary,
                   prob_b_better, rope_pct, prev>>

\* Lines 137-140.
ComputeDelta ==
    /\ pc = "delta"
    /\ samples' = [samples EXCEPT !.delta = Delta(samples.A, samples.B)]
    /\ prob_b_better' = Mean(Greater(samples'.delta))
    /\ pc' = "tab1"
    /\ UNCHANGED <<rng, source_vars, df, map_vars, setting_vars, summary, post,
                   rope_pct, screen, prev>>

\* Lines 144-166: the three posterior plots.
Tab1 ==
    /\ pc = "tab1"
    /\ screen' = [screen EXCEPT !.plots = TRUE]
    /\ pc' = "tab2"
    /\ UNCHANGED <<rng, source_vars, df, map_vars, setting_vars, analysis_vars, prev>>

\* Lines 168-169: the summary table, of which the model keeps the intervals.
Tab2 ==
    /\ pc = "tab2"
    /\ screen' = [screen EXCEPT !.table =
                     << HDI(samples.A, hdi_level), HDI(samples.B, hdi_level),
                        HDI(samples.delta, hdi_level) >>]
    /\ pc' = "tab3"
    /\ UNCHANGED <<rng, source_vars, df, map_vars, setting_vars, analysis_vars, prev>>

\* Lines 171-175: the metrics, formatted to three decimals.
Tab3 ==
    /\ pc = "tab3"
    /\ IF use_rope
       THEN /\ rope_pct' = Mean(InsideRope(samples.delta, rope[1], rope[2]))
            /\ screen' = [screen EXCEPT !.p_b_gt_a = << Format3(prob_b_better) >>,
                                         !.p_rope = << Format3(rope_pct') >>]
       ELSE /\ screen' = [screen EXCEPT !.p_b_gt_a = << Format3(prob_b_better) >>]
            /\ UNCHANGED rope_pct
    /\ pc' = "done"
    /\ UNCHANGED <<rng, source_vars, df, map_vars, setting_vars, summary, post,
                   samples, prob_b_better, prev>>

Next ==
    \/ Rerun
    \/ SampleData
    \/ UploadCSV
    \/ ManualEntry
    \/ CheckGroups
    \/ MapGroups
    \/ Settings
    \/ Preview
    \/ Gate
    \/ DrawSamples
    \/ ComputeDelta
    \/ Tab1
    \/ Tab2
    \/ Tab3

Spec == Init /\ [][Next]_vars

(***************************************************************************)
(* A second specification, for comparing runs of one process: the history  *)
(* variable prev is switched on and the user's inputs come from a smaller  *)
(* set, every step of the script still being taken.                        *)
(***************************************************************************)
InitRepro ==
    /\ pc = "source"
    /\ rng \in Seeds
    /\ FreshRun
    /\ prev = [tracking |-> TRUE, last |-> <<>>]

ReproInputs ==
    /\ manual \in {<<>>, <<2, 1, 1, 1>>}
    /\ uploaded_file \in {<<>>, <<CsvOneGroup>>}
    /\ group_a_label \in {"", "control"}
    /\ alpha_prior \in {0, 100}
    /\ beta_prior \in {0, 100}
    /\ hdi_level \in {0, 95}
    /\ rope \in {<<>>, <<-1, 1>>}
    /\ update = FALSE

NextRepro ==
    \/ (Rerun /\ ReproInputs')
    \/ (SampleData /\ ReproInputs')
    \/ (UploadCSV /\ ReproInputs')
    \/ (ManualEntry /\ ReproInputs')
    \/ (CheckGroups /\ ReproInputs')
    \/ (MapGroups /\ ReproInputs')
    \/ (Settings /\ ReproInputs')
    \/ (Preview /\ ReproInputs')
    \/ (Gate /\ ReproInputs')
    \/ (DrawSamples /\ ReproInputs')
    \/ (ComputeDelta /\ ReproInputs')
    \/ (Tab1 /\ ReproInputs')
    \/ (Tab2 /\ ReproInputs')
    \/ (Tab3 /\ ReproInputs')

SpecRepro == InitRepro /\ [][NextRepro]_vars

(***************************************************************************)
(* What the claims speak of                                                *)
(***************************************************************************)
\* The dataset as the data source delivered it, before the relabelling.
Loaded ==
    IF data_mode = "Sample data" THEN SampleDf
    ELSE IF data_mode = "Upload CSV"
         THEN (IF uploaded_file = <<>> THEN <<>> ELSE uploaded_file[1])
    ELSE IF manual # <<>>
         THEN << Row("control", manual[1], manual[2]),
                 Row("variant", manual[3], manual[4]) >>
    ELSE <<>>

DistinctLabels == {Loaded[i].group : i \in DOMAIN Loaded} \ {NaN}

RECURSIVE SumOver(_, _)
SumOver(f, S) ==
    IF S = {} THEN 0
    ELSE LET i == CHOOSE j \in S : TRUE IN f[i] + SumOver(f, S \ {i})

\* The observed counts of the original label: successes and trials.
Observed(label) ==
    LET rows == {i \in DOMAIN Loaded : Loaded[i].group = label}
    IN [successes |-> SumOver([i \in DOMAIN Loaded |-> Loaded[i].conversions], rows),
        trials |-> SumOver([i \in DOMAIN Loaded |-> Loaded[i].trials], rows)]

OriginalLabel(g) == IF g = "A" THEN group_a_label ELSE group_b_label

InvalidObservation(o) ==
    o.trials < 1 \/ o.successes < 0 \/ o.successes > o.trials

Mapped == pc \notin {"source", "groups", "map"} /\ group_a_label # ""

NoOutputs ==
    /\ ~screen.plots
    /\ screen.table = <<>>
    /\ screen.p_b_gt_a = <<>>
    /\ screen.p_rope = <<>>

Abs(x) == IF x < 0 THEN -x ELSE x

\* m (thousandths) is the fraction k/n rounded to the nearest thousandth.
Rounds(m, k, n) == 2 * Abs(m * n - 1000 * k) <= n

PairedDelta == [i \in 1..NSamples |-> samples.B[i] - samples.A[i]]

PairedGreater == Cardinality({i \in 1..NSamples : PairedDelta[i] > 0})

PairedInside ==
    Cardinality({i \in 1..NSamples :
                    rope[1] < PairedDelta[i] /\ PairedDelta[i] < rope[2]})

MassLevels == {10, 50, 67, 99}

(***************************************************************************)
(* The claims                                                              *)
(***************************************************************************)

\* C1: a run in which a group has trials < 1, or successes outside
\* [0, trials], ends in an error and draws no posterior sample for either
\* group, whatever the data source.
C1_InvalidObservationRejected ==
    (Mapped /\ group_b_label # None
       /\ \E g \in {"A", "B"} : InvalidObservation(Observed(OriginalLabel(g))))
    => /\ samples.A = <<>> /\ samples.B = <<>>
       /\ DOMAIN summary # {} => pc # "done"

\* C2: the Beta distribution sampled for group g has the parameters
\* (alpha_prior + successes_g, beta_prior + trials_g - successes_g), from
\* that group's observed counts and the one prior pair.
C2_PosteriorParameters ==
    \A g \in {"A", "B"} :
        /\ samples[g] # <<>> => post[g] # <<>>
        /\ post[g] # <<>> =>
              LET o == Observed(OriginalLabel(g))
              IN post[g] = << alpha_prior + 100 * o.successes,
                              beta_prior + 100 * (o.trials - o.successes) >>

C2_Witness ==
    /\ pc = "done"
    /\ uploaded_file = <<CsvSwapped>>
    /\ alpha_prior # beta_prior
    /\ samples.A # <<>> /\ samples.B # <<>>
    /\ post.A # post.B

\* C3: a dataset without exactly two distinct non-missing group labels is
\* rejected with an error; no posterior is derived, no sample is drawn and
\* nothing is reported.
C3_NotTwoGroupsRejected ==
    (pc \notin {"source", "groups"} /\ Loaded # <<>> /\ Cardinality(DistinctLabels) # 2)
    => /\ pc = "stopped"
       /\ screen.error = ExpectedTwoMsg
       /\ DOMAIN summary = {}
       /\ post = NoPost
       /\ samples = NoSamples
       /\ NoOutputs

C3_Witness ==
    /\ pc = "stopped"
    /\ Cardinality(DistinctLabels) > 2
    /\ screen.error = ExpectedTwoMsg

\* C4 as stated: the reported P(B > A) equals the number of positions with
\* samplesB[i] - samplesA[i] > 0 divided by the sample count.
C4_ReportedEqualsFraction ==
    screen.p_b_gt_a # <<>> =>
        /\ Len(samples.A) = NSamples /\ Len(samples.B) = NSamples
        /\ screen.p_b_gt_a[1] * NSamples = 1000 * PairedGreater

\* C4 amended: the computed P(B > A) is that fraction, zero differences not
\* counted, and the reported value is the fraction rounded to three
\* decimals, within [0, 1].
C4_ReportedIsRoundedFraction ==
    /\ prob_b_better # <<>> =>
          /\ Len(samples.A) = NSamples /\ Len(samples.B) = NSamples
          /\ prob_b_better = << PairedGreater, NSamples >>
    /\ screen.p_b_gt_a # <<>> =>
          /\ prob_b_better # <<>>
          /\ Rounds(screen.p_b_gt_a[1], PairedGreater, NSamples)
          /\ screen.p_b_gt_a[1] >= 0 /\ screen.p_b_gt_a[1] <= 1000

C4_Witness ==
    /\ screen.p_b_gt_a # <<>>
    /\ \E i \in 1..NSamples : PairedDelta[i] = 0
    /\ \E i \in 1..NSamples : PairedDelta[i] > 0
    /\ \E i \in 1..NSamples : PairedDelta[i] < 0

\* C5 as stated: with ROPE bounds configured the reported ROPE probability
\* equals the fraction of delta samples strictly between the bounds, and
\* without them no ROPE probability is computed or reported.
C5_RopeReportedEqualsFraction ==
    /\ screen.p_rope # <<>> =>
          use_rope /\ screen.p_rope[1] * NSamples = 1000 * PairedInside
    /\ ~use_rope => rope_pct = <<>> /\ screen.p_rope = <<>>

\* C5 amended: the computed ROPE probability is that fraction, a delta equal
\* to a bound counted as outside; the reported value is the fraction rounded
\* to three decimals; without ROPE nothing is computed or reported.
C5_RopeReportedIsRoundedFraction ==
    /\ rope_pct # <<>> => use_rope /\ rope_pct = << PairedInside, NSamples >>
    /\ screen.p_rope # <<>> =>
          rope_pct # <<>> /\ Rounds(screen.p_rope[1], PairedInside, NSamples)
    /\ (use_rope /\ pc = "done" /\ screen.p_b_gt_a # <<>>) => screen.p_rope # <<>>
    /\ ~use_rope => rope_pct = <<>> /\ screen.p_rope = <<>>

C5_Witness ==
    /\ screen.p_rope # <<>>
    /\ \E i \in 1..NSamples : PairedDelta[i] = rope[2]
    /\ \E i \in 1..NSamples : PairedDelta[i] = rope[1]
    /\ PairedInside > 0

\* C6: two runs of one process with identical inputs report identical
\* metrics, however many runs came before.
C6_Reproducible ==
    (pc = "done" /\ screen.p_b_gt_a # <<>> /\ prev.last # <<>>
       /\ prev.last[1].inputs = Inputs)
    => prev.last[1].metrics = Metrics

\* C7: a run that fails ends at the failing stage with its error and has
\* surfaced no posterior plot, summary table, P(B > A) or ROPE probability;
\* those appear only in runs whose every stage succeeded.
C7_NoPartialOutputs ==
    /\ (screen.error # "" \/ screen.exception # "") => pc \in {"stopped", "raised"}
    /\ pc \in {"stopped", "raised"} => NoOutputs
    /\ ~NoOutputs =>
          /\ pc \in {"tab2", "tab3", "done"}
          /\ samples.A # <<>> /\ samples.B # <<>> /\ samples.delta # <<>>

C7_Witness ==
    /\ pc = "raised"
    /\ screen.exception = "ValueError"
    /\ samples.A # <<>>
    /\ screen.preview
    /\ NoOutputs

\* C8: for one sample set and mass levels m1 < m2, the highest-density
\* interval at m1 is no wider than the one at m2.
C8_HdiMonotone ==
    \A v \in {"A", "B", "delta"} :
        (pc = (IF v = "A" THEN "sampleB" ELSE IF v = "B" THEN "delta" ELSE "tab1")) =>
            LET width == [m \in MassLevels |-> Width(HDI(samples[v], m))]
            IN \A m1, m2 \in MassLevels : m1 < m2 => width[m1] <= width[m2]

C8_Witness ==
    /\ pc = "tab1"
    /\ \E m1, m2 \in MassLevels :
          /\ m1 < m2
          /\ WindowSize(m1, NSamples) > 1
          /\ Width(HDI(samples.delta, m1)) < Width(HDI(samples.delta, m2))
          /\ HDI(samples.delta, m1)[1] # Sorted(samples.delta)[1]

C10_MappingTotal ==
    /\ screen.error \notin {DistinctMsg, AbsentMsg}
    /\ (Len(unique_groups) = 2 /\ pc \notin {"groups", "map"}) =>
          /\ group_a_label # group_b_label
          /\ {group_a_label, group_b_label} = DistinctLabels
          /\ Range(UniqueGroups(df)) = {"A", "B"}
          /\ DOMAIN summary # {} =>
                /\ DOMAIN summary = {"A", "B"}
                /\ \A g \in {"A", "B"} :
                      LET o == Observed(OriginalLabel(g))
                      IN /\ summary[g].conversions = o.successes
                         /\ summary[g].trials = o.trials

C10_Witness ==
    /\ pc = "done"
    /\ uploaded_file = <<CsvSwapped>>
    /\ group_a_label = "B"
    /\ group_b_label = "A"
    /\ screen.p_b_gt_a # <<>>

====
